---- MODULE Spec2Model ----
(***************************************************************************)
(* Model of the GFN client: the UserProvider auth listener                 *)
(* (contexts/UserContext.js), the PrivateRoute gate, the Auth and          *)
(* UserProfileSetup forms and the firebaseService data-access functions.   *)
(*                                                                         *)
(* JavaScript values are represented as follows.                           *)
(*   - an object is a function from field names to values;                 *)
(*   - null and undefined are the one-field records Null and Undefined;    *)
(*   - a text (displayName, email) is a tuple of one-character strings,    *)
(*     so that trim() and toLowerCase() are computed, not assumed;         *)
(*   - a uid is a TLA+ string, "" being the empty uid and NoUid the uid    *)
(*     read from an object that has no uid field.                          *)
(***************************************************************************)
EXTENDS Integers, Sequences, FiniteSets, TLC

\* Bounds of the model.
MaxNotifs == 2      \* auth notifications emitted by the provider
MaxSubmits == 1     \* submissions of the profile-setup form

Uids == {"A", "B"}
None == "none"      \* the "signed out" value (authUser = null)
NoUid == "undefined"

Null == [null |-> TRUE]
Undefined == [undefined |-> TRUE]
EmptyObj == [k \in {} |-> TRUE]

Paths == {"/auth", "/dashboard", "/setup-profile"}

\* ---------------------------------------------------------------------
\* JavaScript helpers
\* ---------------------------------------------------------------------

\* The object an expression spreads as: ...null and ...undefined add nothing.
Obj(x) == IF x \in {Null, Undefined} THEN EmptyObj ELSE x

\* { ...a, ...b }
Spread(a, b) ==
  LET oa == Obj(a)
      ob == Obj(b)
  IN  [k \in (DOMAIN oa) \cup (DOMAIN ob) |-> IF k \in DOMAIN ob THEN ob[k] ELSE oa[k]]

\* !x for an object-valued expression
Falsy(x) == x \in {Null, Undefined}

\* !uid for a uid
FalsyUid(uid) == uid \in {"", NoUid}

\* user.uid
UidOf(u) == IF (~Falsy(u)) /\ "uid" \in DOMAIN u THEN u.uid ELSE NoUid

\* truthiness of user.profileComplete
ProfileComplete(u) == (~Falsy(u)) /\ "profileComplete" \in DOMAIN u /\ u.profileComplete

\* String.prototype.toLowerCase on the model's alphabet
LowerChar(c) == CASE c = "A" -> "a" [] c = "B" -> "b" [] OTHER -> c
toLowerCase(s) == [k \in 1..Len(s) |-> LowerChar(s[k])]

\* String.prototype.trim
RECURSIVE trimStart(_)
trimStart(s) == IF s # <<>> /\ Head(s) = " " THEN trimStart(Tail(s)) ELSE s
RECURSIVE trimEnd(_)
trimEnd(s) == IF s # <<>> /\ s[Len(s)] = " " THEN trimEnd(SubSeq(s, 1, Len(s) - 1)) ELSE s
trim(s) == trimEnd(trimStart(s))

\* ---------------------------------------------------------------------
\* Auth provider records
\* ---------------------------------------------------------------------

Email(i) == IF i = "A" THEN <<"a", "@">> ELSE <<"b", "@">>

\* The record the provider hands to the listener and returns in a credential.
AuthRecord(i) == [uid |-> i, email |-> Email(i)]

\* ---------------------------------------------------------------------
\* firebaseService: the document store ('userProfiles' collection)
\* ---------------------------------------------------------------------

\* The store is a function from the ids of the existing documents to their data.
EmptyStore == [k \in {} |-> EmptyObj]

\* getDoc(doc(db, 'userProfiles', uid)): the snapshot of the document.
getDoc(st, uid) ==
  [exists |-> uid \in DOMAIN st,
   id     |-> uid,
   data   |-> IF uid \in DOMAIN st THEN st[uid] ELSE EmptyObj]

NoSnap == [exists |-> FALSE, id |-> "", data |-> EmptyObj]

\* fetchUserProfile(uid), given the snapshot getDoc resolved with.
fetchUserProfile(uid, snap) ==
  IF FalsyUid(uid) THEN Null
  ELSE IF snap.exists THEN Spread([id |-> snap.id], snap.data)
  ELSE Null

\* Variant that replaces the document instead of merging into it.
setDocOverwrite(st, uid, data) ==
  [k \in (DOMAIN st) \cup {uid} |-> IF k = uid THEN Obj(data) ELSE st[k]]

\* Variant that also keeps a count of the writes in the document.
setDocCountsWrites(st, uid, data) ==
  [k \in (DOMAIN st) \cup {uid} |->
     IF k = uid
       THEN LET old == IF uid \in DOMAIN st THEN st[uid] ELSE EmptyObj
            IN  Spread(Spread(old, data),
                       [writes |-> IF "writes" \in DOMAIN old
                                     THEN (old.writes + 1) % 3 ELSE 0])
       ELSE st[k]]

\* setDoc(ref, data, { merge: true })
setDoc(st, uid, data) ==
  [k \in (DOMAIN st) \cup {uid} |->
     IF k = uid
       THEN Spread(IF uid \in DOMAIN st THEN st[uid] ELSE EmptyObj, data)
       ELSE st[k]]

\* Variant of the argument check that tests the uid only.
setUserProfileThrowsUidOnly(uid, profileData) == FalsyUid(uid)

\* setUserProfile's argument check: TRUE when it throws.
setUserProfileThrows(uid, profileData) == FalsyUid(uid) \/ Falsy(profileData)

\* The fields UserProfileSetup.handleSubmit writes.
\* Variant that stores the trimmed name in both fields.
ProfileFieldsKeepsCase(displayName, email, now) ==
  [displayName          |-> trim(displayName),
   lowercaseDisplayName |-> trim(displayName),
   email                |-> email,
   createdAt            |-> now]

ProfileFields(displayName, email, now) ==
  [displayName          |-> trim(displayName),
   lowercaseDisplayName |-> toLowerCase(trim(displayName)),
   email                |-> email,
   createdAt            |-> now]

\* ---------------------------------------------------------------------
\* UserContext: the Session values the auth callback produces
\* ---------------------------------------------------------------------

\* Variant that takes the display name from the auth record.
SessionFromProfileUsesEmail(authUser, profile) ==
  Spread(authUser, [displayName |-> authUser.email, profileComplete |-> TRUE])

\* setUser({ ...authUser, displayName: profile.displayName, profileComplete: true })
SessionFromProfile(authUser, profile) ==
  Spread(authUser,
         IF "displayName" \in DOMAIN profile
           THEN [displayName |-> profile.displayName, profileComplete |-> TRUE]
           ELSE [profileComplete |-> TRUE])

\* Variant that marks the profile complete.
SessionFallbackMarksComplete(authUser) ==
  Spread(authUser, [displayName |-> authUser.email, profileComplete |-> TRUE])

\* setUser({ ...authUser, displayName: authUser.email, profileComplete: false })
SessionFallback(authUser) ==
  Spread(authUser, [displayName |-> authUser.email, profileComplete |-> FALSE])

\* ---------------------------------------------------------------------
\* PrivateRoute
\* ---------------------------------------------------------------------

\* Variant without the check of the current path.
PrivateRouteNoPathCheck(loading, u, pathname) ==
  IF loading THEN "Wait"
  ELSE IF Falsy(u) THEN "RedirectToAuth"
  ELSE IF (~Falsy(u)) /\ (~ProfileComplete(u)) THEN "RedirectToSetup"
  ELSE "Allow"

PrivateRoute(loading, u, pathname) ==
  IF loading THEN "Wait"
  ELSE IF Falsy(u) THEN "RedirectToAuth"
  ELSE IF (~Falsy(u)) /\ (~ProfileComplete(u)) /\ pathname # "/setup-profile"
    THEN "RedirectToSetup"
  ELSE "Allow"

\* ---------------------------------------------------------------------
\* State
\* ---------------------------------------------------------------------

VARIABLES
  store,        \* Firestore 'userProfiles' collection
  accounts,     \* uids registered with the auth provider
  authCurrent,  \* the provider's current user: a uid or None
  notifQ,       \* notifications the provider has emitted, not yet delivered
  nNotif,       \* number of notifications emitted so far
  subscribed,   \* the onAuthStateChanged listener is registered
  user,         \* UserProvider state 'user' (the Session)
  loadingUser,  \* UserProvider state 'loadingUser'
  path,         \* window.location.pathname
  cbs,          \* invocations of the auth callback, in order of delivery, each
                \* with the number of setLoadingUser(false) calls it has made
  authOp,       \* Auth form: the sign-in / sign-up call in progress
  authLoading,  \* Auth form state 'loading'
  authError,    \* Auth form state 'error'
  write,        \* UserProfileSetup: the setUserProfile call in progress
  setupLoading, \* UserProfileSetup state 'loading'
  setupError,   \* UserProfileSetup state 'error'
  nSubmit,      \* number of handleSubmit calls that passed validation
  call,         \* last direct call of a firebaseService function
  chats,        \* Firestore 'chats' collection
  watch,        \* the subscribeToUserChats call and what it has delivered
  nav           \* the navigate() call made by the last step: its target, or NoNav

vars == <<store, accounts, authCurrent, notifQ, nNotif, subscribed, user,
          loadingUser, path, cbs, authOp, authLoading, authError, write,
          setupLoading, setupError, nSubmit, call, chats, watch, nav>>

NoError == "null"
NoOp == [kind |-> "none", st |-> "none", uid |-> ""]
NoWrite == [pc |-> "none", uid |-> "", fields |-> EmptyObj, name |-> <<>>]
NoCall == [op |-> "none", uid |-> "", fields |-> EmptyObj, outcome |-> "none",
           before |-> EmptyStore]
NoNav == "none"
NoChats == [c \in {} |-> EmptyObj]
NoWatch == [uid |-> "", state |-> "none", opened |-> FALSE, synced |-> FALSE,
            nUpdates |-> 0, lastUpdate |-> <<>>, errors |-> 0, unsubCalls |-> 0]

\* A profile document left by an earlier setup submission.
StoredProfile(i) ==
  ProfileFields(IF i = "A" THEN <<"A", "l">> ELSE <<"B", "o">>, Email(i), 0)

StoreWith(S) == [k \in S |-> StoredProfile(k)]

Init ==
  /\ accounts \in {{"A"}, {"A", "B"}}
  /\ store \in {StoreWith(S) : S \in SUBSET accounts}
  /\ authCurrent \in accounts \cup {None}
  /\ notifQ = <<authCurrent>>
  /\ nNotif = 1
  /\ subscribed = TRUE
  /\ user = Null
  /\ loadingUser = TRUE
  /\ path \in Paths
  /\ cbs = <<>>
  /\ authOp = NoOp
  /\ authLoading = FALSE
  /\ authError = NoError
  /\ write = NoWrite
  /\ setupLoading = FALSE
  /\ setupError = NoError
  /\ nSubmit = 0
  /\ call = NoCall
  /\ chats = NoChats
  /\ watch = NoWatch
  /\ nav = NoNav

\* ---------------------------------------------------------------------
\* The auth provider
\* ---------------------------------------------------------------------

\* The provider's current user becomes a; a registered listener is notified
\* when the user changes.
Emit(a) ==
  /\ authCurrent' = a
  /\ IF a # authCurrent /\ subscribed
       THEN /\ nNotif < MaxNotifs
            /\ notifQ' = Append(notifQ, a)
            /\ nNotif' = nNotif + 1
       ELSE UNCHANGED <<notifQ, nNotif>>

\* The provider notifies its listeners as part of the change of user, so a
\* later user gesture (a click on a form or on the sign-out control) finds
\* no notification waiting; network responses may still come in any order.
ListenersNotified == notifQ = <<>>

\* logoutUser: await signOut(auth)
logoutUser ==
  /\ ListenersNotified
  /\ authCurrent # None
  /\ Emit(None)
  /\ nav' = NoNav
  /\ UNCHANGED <<store, accounts, subscribed, user, loadingUser, path, cbs,
                 authOp, authLoading, authError, write, setupLoading,
                 setupError, nSubmit, call,
                 chats, watch>>

\* ---------------------------------------------------------------------
\* UserProvider: the onAuthStateChanged callback
\* ---------------------------------------------------------------------

\* Variant that clears the Session when the notification is delivered.
OnAuthUserClearsSession ==
  /\ subscribed
  /\ notifQ # <<>>
  /\ Head(notifQ) # None
  /\ notifQ' = Tail(notifQ)
  /\ cbs' = Append(cbs, [auth |-> Head(notifQ), pc |-> "getDoc", snap |-> NoSnap,
                         signalled |-> 0])
  /\ nav' = NoNav
  /\ user' = Null
  /\ UNCHANGED <<store, accounts, authCurrent, nNotif, subscribed,
                 loadingUser, path, authOp, authLoading, authError, write,
                 setupLoading, setupError, nSubmit, call,
                 chats, watch>>

\* The callback is invoked with a user: it calls fetchUserProfile(authUser.uid)
\* and suspends at the await.
OnAuthUser ==
  /\ subscribed
  /\ notifQ # <<>>
  /\ Head(notifQ) # None
  /\ notifQ' = Tail(notifQ)
  /\ cbs' = Append(cbs, [auth |-> Head(notifQ), pc |-> "getDoc", snap |-> NoSnap,
                         signalled |-> 0])
  /\ nav' = NoNav
  /\ UNCHANGED <<store, accounts, authCurrent, nNotif, subscribed, user,
                 loadingUser, path, authOp, authLoading, authError, write,
                 setupLoading, setupError, nSubmit, call,
                 chats, watch>>

\* The callback is invoked with null: setUser(null); setLoadingUser(false).
OnSignedOut ==
  /\ subscribed
  /\ notifQ # <<>>
  /\ Head(notifQ) = None
  /\ notifQ' = Tail(notifQ)
  /\ user' = Null
  /\ loadingUser' = FALSE
  /\ cbs' = Append(cbs, [auth |-> None, pc |-> "done", snap |-> NoSnap,
                         signalled |-> 1])
  /\ nav' = NoNav
  /\ UNCHANGED <<store, accounts, authCurrent, nNotif, subscribed, path,
                 authOp, authLoading, authError, write, setupLoading,
                 setupError, nSubmit, call,
                 chats, watch>>

\* The store serves the getDoc of invocation n.
GetDocRead(n) ==
  /\ n \in DOMAIN cbs
  /\ cbs[n].pc = "getDoc"
  /\ cbs' = [cbs EXCEPT ![n].pc = "snap", ![n].snap = getDoc(store, cbs[n].auth)]
  /\ nav' = NoNav
  /\ UNCHANGED <<store, accounts, authCurrent, notifQ, nNotif, subscribed, user,
                 loadingUser, path, authOp, authLoading, authError, write,
                 setupLoading, setupError, nSubmit, call,
                 chats, watch>>

\* The getDoc of invocation n fails: the await throws, nothing catches it and
\* the callback ends there.
GetDocReject(n) ==
  /\ n \in DOMAIN cbs
  /\ cbs[n].pc = "getDoc"
  /\ cbs' = [cbs EXCEPT ![n].pc = "rejected"]
  /\ nav' = NoNav
  /\ UNCHANGED <<store, accounts, authCurrent, notifQ, nNotif, subscribed, user,
                 loadingUser, path, authOp, authLoading, authError, write,
                 setupLoading, setupError, nSubmit, call,
                 chats, watch>>

\* Variant that calls setLoadingUser(false) on the profile-found branch only.
CallbackResumeSignalsOnProfileOnly(n) ==
  /\ n \in DOMAIN cbs
  /\ cbs[n].pc = "snap"
  /\ LET authUser == AuthRecord(cbs[n].auth)
         profile  == fetchUserProfile(authUser.uid, cbs[n].snap)
     IN  IF ~Falsy(profile)
           THEN /\ user' = SessionFromProfile(authUser, profile)
                /\ path' = path
                /\ nav' = NoNav
                /\ loadingUser' = FALSE
                /\ cbs' = [cbs EXCEPT ![n].pc = "done", ![n].signalled = @ + 1]
           ELSE /\ user' = SessionFallback(authUser)
                /\ path' = IF path # "/setup-profile" THEN "/setup-profile" ELSE path
                /\ nav' = IF path # "/setup-profile" THEN "/setup-profile" ELSE NoNav
                /\ loadingUser' = loadingUser
                /\ cbs' = [cbs EXCEPT ![n].pc = "done"]
  /\ UNCHANGED <<store, accounts, authCurrent, notifQ, nNotif, subscribed,
                 authOp, authLoading, authError, write, setupLoading,
                 setupError, nSubmit, call,
                 chats, watch>>

\* Variant that calls navigate whatever the current path.
CallbackResumeAlwaysNavigates(n) ==
  /\ n \in DOMAIN cbs
  /\ cbs[n].pc = "snap"
  /\ LET authUser == AuthRecord(cbs[n].auth)
         profile  == fetchUserProfile(authUser.uid, cbs[n].snap)
     IN  IF ~Falsy(profile)
           THEN /\ user' = SessionFromProfile(authUser, profile)
                /\ path' = path
                /\ nav' = NoNav
           ELSE /\ user' = SessionFallback(authUser)
                /\ path' = IF path # "/setup-profile" THEN "/setup-profile" ELSE path
                /\ nav' = "/setup-profile"
  /\ loadingUser' = FALSE
  /\ cbs' = [cbs EXCEPT ![n].pc = "done", ![n].signalled = @ + 1]
  /\ UNCHANGED <<store, accounts, authCurrent, notifQ, nNotif, subscribed,
                 authOp, authLoading, authError, write, setupLoading,
                 setupError, nSubmit, call,
                 chats, watch>>

\* The lookup of invocation n responds and the callback runs to its end.
CallbackResume(n) ==
  /\ n \in DOMAIN cbs
  /\ cbs[n].pc = "snap"
  /\ LET authUser == AuthRecord(cbs[n].auth)
         profile  == fetchUserProfile(authUser.uid, cbs[n].snap)
     IN  IF ~Falsy(profile)
           THEN /\ user' = SessionFromProfile(authUser, profile)
                /\ path' = path
                /\ nav' = NoNav
           ELSE /\ user' = SessionFallback(authUser)
                /\ path' = IF path # "/setup-profile" THEN "/setup-profile" ELSE path
                /\ nav' = IF path # "/setup-profile" THEN "/setup-profile" ELSE NoNav
  /\ loadingUser' = FALSE
  /\ cbs' = [cbs EXCEPT ![n].pc = "done", ![n].signalled = @ + 1]
  /\ UNCHANGED <<store, accounts, authCurrent, notifQ, nNotif, subscribed,
                 authOp, authLoading, authError, write, setupLoading,
                 setupError, nSubmit, call,
                 chats, watch>>

\* The effect's cleanup: unsubscribe(). The provider delivers nothing to the
\* listener from then on.
Unsubscribe ==
  /\ subscribed
  /\ subscribed' = FALSE
  /\ notifQ' = <<>>
  /\ nav' = NoNav
  /\ UNCHANGED <<store, accounts, authCurrent, nNotif, user,
                 loadingUser, path, cbs, authOp, authLoading, authError, write,
                 setupLoading, setupError, nSubmit, call,
                 chats, watch>>

\* ---------------------------------------------------------------------
\* Auth form
\* ---------------------------------------------------------------------

\* The form is shown on the page PrivateRoute redirects signed-out users to;
\* its buttons are disabled while 'loading'.
AuthFormEnabled == ListenersNotified /\ path = "/auth" /\ ~authLoading

\* handleLogin up to its await, with the credentials of account i.
handleLogin(i) ==
  /\ AuthFormEnabled
  /\ authLoading' = TRUE
  /\ authError' = NoError
  /\ authOp' = [kind |-> "login", st |-> "wait", uid |-> i]
  /\ nav' = NoNav
  /\ UNCHANGED <<store, accounts, authCurrent, notifQ, nNotif, subscribed, user,
                 loadingUser, path, cbs, write, setupLoading, setupError,
                 nSubmit, call,
                 chats, watch>>

\* signInWithEmailAndPassword succeeds.
SignInResolve ==
  /\ authOp.kind = "login" /\ authOp.st = "wait"
  /\ authOp.uid \in accounts
  /\ Emit(authOp.uid)
  /\ authOp' = [authOp EXCEPT !.st = "ok"]
  /\ nav' = NoNav
  /\ UNCHANGED <<store, accounts, subscribed, user, loadingUser, path, cbs,
                 authLoading, authError, write, setupLoading, setupError,
                 nSubmit, call,
                 chats, watch>>

\* signInWithEmailAndPassword / createUserWithEmailAndPassword is rejected.
AuthReject ==
  /\ authOp.kind \in {"login", "signup"} /\ authOp.st = "wait"
  /\ authOp' = [authOp EXCEPT !.st = "err"]
  /\ nav' = NoNav
  /\ UNCHANGED <<store, accounts, authCurrent, notifQ, nNotif, subscribed, user,
                 loadingUser, path, cbs, authLoading, authError, write,
                 setupLoading, setupError, nSubmit, call,
                 chats, watch>>

\* handleLogin after a successful await: navigate('/dashboard'); finally.
handleLoginThen ==
  /\ authOp.kind = "login" /\ authOp.st = "ok"
  /\ path' = "/dashboard"
  /\ nav' = "/dashboard"
  /\ authLoading' = FALSE
  /\ authOp' = NoOp
  /\ UNCHANGED <<store, accounts, authCurrent, notifQ, nNotif, subscribed, user,
                 loadingUser, cbs, authError, write, setupLoading, setupError,
                 nSubmit, call,
                 chats, watch>>

\* Variant without the finally block.
handleAuthCatchKeepsLoading ==
  /\ authOp.kind \in {"login", "signup"} /\ authOp.st = "err"
  /\ authError' = "auth-error"
  /\ authLoading' = authLoading
  /\ authOp' = NoOp
  /\ nav' = NoNav
  /\ UNCHANGED <<store, accounts, authCurrent, notifQ, nNotif, subscribed, user,
                 loadingUser, path, cbs, write, setupLoading, setupError,
                 nSubmit, call,
                 chats, watch>>

\* handleLogin / handleSignup catch: setError(err.message); finally.
handleAuthCatch ==
  /\ authOp.kind \in {"login", "signup"} /\ authOp.st = "err"
  /\ authError' = "auth-error"
  /\ authLoading' = FALSE
  /\ authOp' = NoOp
  /\ nav' = NoNav
  /\ UNCHANGED <<store, accounts, authCurrent, notifQ, nNotif, subscribed, user,
                 loadingUser, path, cbs, write, setupLoading, setupError,
                 nSubmit, call,
                 chats, watch>>

\* handleSignup up to its await, asking for a new account i.
handleSignup(i) ==
  /\ AuthFormEnabled
  /\ authLoading' = TRUE
  /\ authError' = NoError
  /\ authOp' = [kind |-> "signup", st |-> "wait", uid |-> i]
  /\ nav' = NoNav
  /\ UNCHANGED <<store, accounts, authCurrent, notifQ, nNotif, subscribed, user,
                 loadingUser, path, cbs, write, setupLoading, setupError,
                 nSubmit, call,
                 chats, watch>>

\* createUserWithEmailAndPassword succeeds: the account is created and signed in.
SignUpResolve ==
  /\ authOp.kind = "signup" /\ authOp.st = "wait"
  /\ authOp.uid \notin accounts
  /\ accounts' = accounts \cup {authOp.uid}
  /\ Emit(authOp.uid)
  /\ authOp' = [authOp EXCEPT !.st = "ok"]
  /\ nav' = NoNav
  /\ UNCHANGED <<store, subscribed, user, loadingUser, path, cbs, authLoading,
                 authError, write, setupLoading, setupError, nSubmit, call,
                 chats, watch>>

\* handleSignup after a successful await: setUser(...); navigate('/setup-profile').
handleSignupThen ==
  /\ authOp.kind = "signup" /\ authOp.st = "ok"
  /\ user' = SessionFallback(AuthRecord(authOp.uid))
  /\ path' = "/setup-profile"
  /\ nav' = "/setup-profile"
  /\ authLoading' = FALSE
  /\ authOp' = NoOp
  /\ UNCHANGED <<store, accounts, authCurrent, notifQ, nNotif, subscribed,
                 loadingUser, cbs, authError, write, setupLoading, setupError,
                 nSubmit, call,
                 chats, watch>>

\* ---------------------------------------------------------------------
\* UserProfileSetup
\* ---------------------------------------------------------------------

\* What the user may type into the display-name field.
NameInputs == {<<" ">>, <<" ", "A", "b">>}

\* The form is rendered on /setup-profile for a user whose profile is not
\* complete; its button is disabled while 'loading'.
SetupFormEnabled ==
  /\ ListenersNotified
  /\ path = "/setup-profile"
  /\ ~Falsy(user)
  /\ ~ProfileComplete(user)
  /\ ~setupLoading

\* handleSubmit, validation branch: setError(...); return.
handleSubmitInvalid(displayName) ==
  /\ SetupFormEnabled
  /\ Falsy(user) \/ trim(displayName) = <<>>
  /\ setupError' = "Please provide a valid display name."
  /\ nav' = NoNav
  /\ UNCHANGED <<store, accounts, authCurrent, notifQ, nNotif, subscribed, user,
                 loadingUser, path, cbs, authOp, authLoading, authError, write,
                 setupLoading, nSubmit, call,
                 chats, watch>>

\* handleSubmit up to the await inside setUserProfile.
handleSubmit(displayName) ==
  /\ SetupFormEnabled
  /\ ~(Falsy(user) \/ trim(displayName) = <<>>)
  /\ nSubmit < MaxSubmits
  /\ nSubmit' = nSubmit + 1
  /\ setupLoading' = TRUE
  /\ setupError' = NoError
  /\ LET uid    == UidOf(user)
         fields == ProfileFields(displayName, user.email, nSubmit + 1)
     IN  write' = [pc     |-> IF setUserProfileThrows(uid, fields) THEN "rejected" ELSE "setDoc",
                   uid    |-> uid,
                   fields |-> fields,
                   name   |-> trim(displayName)]
  /\ nav' = NoNav
  /\ UNCHANGED <<store, accounts, authCurrent, notifQ, nNotif, subscribed, user,
                 loadingUser, path, cbs, authOp, authLoading, authError, call,
                 chats, watch>>

\* The store applies the merge write.
SetDocCommit ==
  /\ write.pc = "setDoc"
  /\ store' = setDoc(store, write.uid, write.fields)
  /\ write' = [write EXCEPT !.pc = "committed"]
  /\ nav' = NoNav
  /\ UNCHANGED <<accounts, authCurrent, notifQ, nNotif, subscribed, user,
                 loadingUser, path, cbs, authOp, authLoading, authError,
                 setupLoading, setupError, nSubmit, call,
                 chats, watch>>

\* The store rejects the write.
SetDocReject ==
  /\ write.pc = "setDoc"
  /\ write' = [write EXCEPT !.pc = "rejected"]
  /\ nav' = NoNav
  /\ UNCHANGED <<store, accounts, authCurrent, notifQ, nNotif, subscribed, user,
                 loadingUser, path, cbs, authOp, authLoading, authError,
                 setupLoading, setupError, nSubmit, call,
                 chats, watch>>

\* handleSubmit after a successful await:
\* setUser(prevUser => ({ ...prevUser, displayName, profileComplete: true }));
\* navigate('/dashboard'); finally.
handleSubmitThen ==
  /\ write.pc = "committed"
  /\ user' = Spread(user, [displayName |-> write.name, profileComplete |-> TRUE])
  /\ path' = "/dashboard"
  /\ nav' = "/dashboard"
  /\ setupLoading' = FALSE
  /\ write' = NoWrite
  /\ UNCHANGED <<store, accounts, authCurrent, notifQ, nNotif, subscribed,
                 loadingUser, cbs, authOp, authLoading, authError, setupError,
                 nSubmit, call,
                 chats, watch>>

\* Variant whose catch block goes on to the dashboard.
handleSubmitCatchNavigates ==
  /\ write.pc = "rejected"
  /\ setupError' = "Failed to save profile. Please try again."
  /\ setupLoading' = FALSE
  /\ write' = NoWrite
  /\ nav' = "/dashboard"
  /\ path' = "/dashboard"
  /\ UNCHANGED <<store, accounts, authCurrent, notifQ, nNotif, subscribed, user,
                 loadingUser, cbs, authOp, authLoading, authError,
                 nSubmit, call,
                 chats, watch>>

\* handleSubmit catch: setError(...); finally.
handleSubmitCatch ==
  /\ write.pc = "rejected"
  /\ setupError' = "Failed to save profile. Please try again."
  /\ setupLoading' = FALSE
  /\ write' = NoWrite
  /\ nav' = NoNav
  /\ UNCHANGED <<store, accounts, authCurrent, notifQ, nNotif, subscribed, user,
                 loadingUser, path, cbs, authOp, authLoading, authError,
                 nSubmit, call,
                 chats, watch>>

\* Variant that sends every user away from the setup page.
UserProfileSetupRenderAnyUser ==
  /\ path = "/setup-profile"
  /\ PrivateRoute(loadingUser, user, path) = "Allow"
  /\ ~Falsy(user)
  /\ path' = "/dashboard"
  /\ nav' = "/dashboard"
  /\ UNCHANGED <<store, accounts, authCurrent, notifQ, nNotif, subscribed, user,
                 loadingUser, cbs, authOp, authLoading, authError, write,
                 setupLoading, setupError, nSubmit, call,
                 chats, watch>>

\* The component body: a user whose profile is complete is sent to /dashboard.
UserProfileSetupRender ==
  /\ path = "/setup-profile"
  /\ PrivateRoute(loadingUser, user, path) = "Allow"
  /\ ~Falsy(user)
  /\ ProfileComplete(user)
  /\ path' = "/dashboard"
  /\ nav' = "/dashboard"
  /\ UNCHANGED <<store, accounts, authCurrent, notifQ, nNotif, subscribed, user,
                 loadingUser, cbs, authOp, authLoading, authError, write,
                 setupLoading, setupError, nSubmit, call,
                 chats, watch>>

\* ---------------------------------------------------------------------
\* PrivateRoute rendered around a protected page
\* ---------------------------------------------------------------------

ProtectedPaths == {"/dashboard", "/setup-profile"}

PrivateRouteToAuth ==
  /\ path \in ProtectedPaths
  /\ PrivateRoute(loadingUser, user, path) = "RedirectToAuth"
  /\ path' = "/auth"
  /\ nav' = "/auth"
  /\ UNCHANGED <<store, accounts, authCurrent, notifQ, nNotif, subscribed, user,
                 loadingUser, cbs, authOp, authLoading, authError, write,
                 setupLoading, setupError, nSubmit, call,
                 chats, watch>>

PrivateRouteToSetup ==
  /\ path \in ProtectedPaths
  /\ PrivateRoute(loadingUser, user, path) = "RedirectToSetup"
  /\ path' = "/setup-profile"
  /\ nav' = "/setup-profile"
  /\ UNCHANGED <<store, accounts, authCurrent, notifQ, nNotif, subscribed, user,
                 loadingUser, cbs, authOp, authLoading, authError, write,
                 setupLoading, setupError, nSubmit, call,
                 chats, watch>>

\* ---------------------------------------------------------------------
\* The application
\* ---------------------------------------------------------------------

Next ==
  \/ logoutUser
  \/ OnAuthUser
  \/ OnSignedOut
  \/ \E n \in 1..MaxNotifs : GetDocRead(n)
  \/ \E n \in 1..MaxNotifs : GetDocReject(n)
  \/ \E n \in 1..MaxNotifs : CallbackResume(n)
  \/ Unsubscribe
  \/ \E i \in Uids : handleLogin(i)
  \/ SignInResolve
  \/ AuthReject
  \/ handleLoginThen
  \/ handleAuthCatch
  \/ \E i \in Uids : handleSignup(i)
  \/ SignUpResolve
  \/ handleSignupThen
  \/ \E d \in NameInputs : handleSubmitInvalid(d)
  \/ \E d \in NameInputs : handleSubmit(d)
  \/ SetDocCommit
  \/ SetDocReject
  \/ handleSubmitThen
  \/ handleSubmitCatch
  \/ UserProfileSetupRender
  \/ PrivateRouteToAuth
  \/ PrivateRouteToSetup

Spec == Init /\ [][Next]_vars

\* PrivateRoute is a component body: React renders it whenever the Session,
\* the loading flag or the location has changed, so a redirect it has to make
\* is made.
SpecRender == Init /\ [][Next]_vars /\ WF_vars(PrivateRouteToSetup)

\* ---------------------------------------------------------------------
\* firebaseService called directly, on any store and with any arguments
\* ---------------------------------------------------------------------

ApiUids == {"", "A", "B"}

ApiFields ==
  {Undefined, Null, EmptyObj,
   [displayName |-> <<"Y">>],
   [displayName |-> <<"X">>, email |-> <<"e">>]}

InitApi ==
  /\ store \in {StoreWith(S) : S \in SUBSET Uids}
  /\ accounts = Uids
  /\ authCurrent = None
  /\ notifQ = <<>>
  /\ nNotif = 0
  /\ subscribed = FALSE
  /\ user = Null
  /\ loadingUser = TRUE
  /\ path = "/auth"
  /\ cbs = <<>>
  /\ authOp = NoOp
  /\ authLoading = FALSE
  /\ authError = NoError
  /\ write = NoWrite
  /\ setupLoading = FALSE
  /\ setupError = NoError
  /\ nSubmit = 0
  /\ call = NoCall
  /\ chats = NoChats
  /\ watch = NoWatch
  /\ nav = NoNav

\* setUserProfile(uid, profileData) throws on its argument check.
setUserProfileThrow(uid, profileData) ==
  /\ setUserProfileThrows(uid, profileData)
  /\ call' = [op |-> "setUserProfile", uid |-> uid, fields |-> profileData,
              outcome |-> "InvalidArgument", before |-> store]
  /\ UNCHANGED <<store, accounts, authCurrent, notifQ, nNotif, subscribed, user,
                 loadingUser, path, cbs, authOp, authLoading, authError, write,
                 setupLoading, setupError, nSubmit,
                 chats, watch, nav>>

\* setUserProfile(uid, profileData) passes the check and setDoc resolves.
setUserProfileResolve(uid, profileData) ==
  /\ ~setUserProfileThrows(uid, profileData)
  /\ store' = setDoc(store, uid, profileData)
  /\ call' = [op |-> "setUserProfile", uid |-> uid, fields |-> profileData,
              outcome |-> "ok", before |-> store]
  /\ UNCHANGED <<accounts, authCurrent, notifQ, nNotif, subscribed, user,
                 loadingUser, path, cbs, authOp, authLoading, authError, write,
                 setupLoading, setupError, nSubmit,
                 chats, watch, nav>>

\* setUserProfile(uid, profileData) passes the check and setDoc is rejected.
setUserProfileReject(uid, profileData) ==
  /\ ~setUserProfileThrows(uid, profileData)
  /\ call' = [op |-> "setUserProfile", uid |-> uid, fields |-> profileData,
              outcome |-> "CollaboratorFailure", before |-> store]
  /\ UNCHANGED <<store, accounts, authCurrent, notifQ, nNotif, subscribed, user,
                 loadingUser, path, cbs, authOp, authLoading, authError, write,
                 setupLoading, setupError, nSubmit,
                 chats, watch, nav>>

NextApi ==
  \/ \E uid \in ApiUids, f \in ApiFields : setUserProfileThrow(uid, f)
  \/ \E uid \in ApiUids, f \in ApiFields : setUserProfileResolve(uid, f)
  \/ \E uid \in ApiUids, f \in ApiFields : setUserProfileReject(uid, f)

SpecApi == InitApi /\ [][NextApi]_vars

\* ---------------------------------------------------------------------
\* firebaseService: searchUserProfiles
\* ---------------------------------------------------------------------

NumDocs == 6        \* profile documents in the searched collection
MaxResults == 5     \* limit(5)

\* The character '\uf8ff'.
HighSentinel == "uf8ff"

\* Order of the characters of the model's alphabet.
CharCode(c) ==
  CASE c = " " -> 0
    [] c = "A" -> 1
    [] c = "B" -> 2
    [] c = "a" -> 3
    [] c = "b" -> 4
    [] c = HighSentinel -> 5

\* s <= t in the store's order of strings.
RECURSIVE LexLeq(_, _)
LexLeq(s, t) ==
  IF s = <<>> THEN TRUE
  ELSE IF t = <<>> THEN FALSE
  ELSE IF Head(s) = Head(t) THEN LexLeq(Tail(s), Tail(t))
  ELSE CharCode(Head(s)) < CharCode(Head(t))

\* where('lowercaseDisplayName', '>=', lo), where('lowercaseDisplayName', '<=', hi):
\* the ids of the documents that have the field, with a value in [lo, hi].
RangeFilter(st, lo, hi) ==
  {d \in DOMAIN st :
     /\ "lowercaseDisplayName" \in DOMAIN st[d]
     /\ LexLeq(lo, st[d].lowercaseDisplayName)
     /\ LexLeq(st[d].lowercaseDisplayName, hi)}

\* Document d comes no later than e in the result of a range query: the
\* store returns the documents in ascending order of the filtered field,
\* then of document id.
ComesBefore(st, d, e) ==
  LET x == st[d].lowercaseDisplayName
      y == st[e].lowercaseDisplayName
  IN  IF x = y THEN d <= e ELSE LexLeq(x, y)

RECURSIVE OrderByField(_, _)
OrderByField(st, S) ==
  IF S = {} THEN <<>>
  ELSE LET m == CHOOSE d \in S : \A e \in S : ComesBefore(st, d, e)
       IN  <<m>> \o OrderByField(st, S \ {m})

\* limit(n)
limit(docs, n) == SubSeq(docs, 1, IF Len(docs) < n THEN Len(docs) ELSE n)

\* Variant that queries with the text as typed.
searchUserProfilesCaseSensitive(st, queryText) ==
  IF Falsy(queryText) \/ queryText.text = <<>> \/ trim(queryText.text) = <<>>
    THEN [queried |-> FALSE, results |-> <<>>]
    ELSE LET lowercasedQuery == queryText.text
             docs == limit(OrderByField(st, RangeFilter(st, lowercasedQuery,
                                 lowercasedQuery \o <<HighSentinel>>)), MaxResults)
         IN  [queried |-> TRUE,
              results |-> [k \in 1..Len(docs) |-> Spread([id |-> docs[k]], st[docs[k]])]]

\* Variant without limit(5).
searchUserProfilesNoLimit(st, queryText) ==
  IF Falsy(queryText) \/ queryText.text = <<>> \/ trim(queryText.text) = <<>>
    THEN [queried |-> FALSE, results |-> <<>>]
    ELSE LET lowercasedQuery == toLowerCase(queryText.text)
             docs == OrderByField(st, RangeFilter(st, lowercasedQuery,
                                 lowercasedQuery \o <<HighSentinel>>))
         IN  [queried |-> TRUE,
              results |-> [k \in 1..Len(docs) |-> Spread([id |-> docs[k]], st[docs[k]])]]

\* Variant whose guard does not trim the text.
searchUserProfilesNoTrim(st, queryText) ==
  IF Falsy(queryText) \/ queryText.text = <<>>
    THEN [queried |-> FALSE, results |-> <<>>]
    ELSE LET lowercasedQuery == toLowerCase(queryText.text)
             docs == limit(OrderByField(st, RangeFilter(st, lowercasedQuery,
                                 lowercasedQuery \o <<HighSentinel>>)), MaxResults)
         IN  [queried |-> TRUE,
              results |-> [k \in 1..Len(docs) |-> Spread([id |-> docs[k]], st[docs[k]])]]

\* searchUserProfiles(queryText) when getDocs resolves: whether a query was
\* issued, and the array returned. The argument is Undefined or [text |-> t].
searchUserProfiles(st, queryText) ==
  IF Falsy(queryText) \/ queryText.text = <<>> \/ trim(queryText.text) = <<>>
    THEN [queried |-> FALSE, results |-> <<>>]
    ELSE LET lowercasedQuery == toLowerCase(queryText.text)
             docs == limit(OrderByField(st, RangeFilter(st, lowercasedQuery,
                                 lowercasedQuery \o <<HighSentinel>>)), MaxResults)
         IN  [queried |-> TRUE,
              results |-> [k \in 1..Len(docs) |-> Spread([id |-> docs[k]], st[docs[k]])]]

\* Display names of the profiles in the searched collection.
SearchNames == {<<"A">>, <<"a", "b">>, <<"a", HighSentinel>>, <<"B", "a">>}

SearchQueries ==
  {Undefined, [text |-> <<>>], [text |-> <<" ">>], [text |-> <<"a">>],
   [text |-> <<"A">>], [text |-> <<"b">>]}

\* The collection starts empty; documents are numbered in order of creation.
InitSearch ==
  /\ store = <<>>
  /\ accounts = Uids
  /\ authCurrent = None
  /\ notifQ = <<>>
  /\ nNotif = 0
  /\ subscribed = FALSE
  /\ user = Null
  /\ loadingUser = TRUE
  /\ path = "/auth"
  /\ cbs = <<>>
  /\ authOp = NoOp
  /\ authLoading = FALSE
  /\ authError = NoError
  /\ write = NoWrite
  /\ setupLoading = FALSE
  /\ setupError = NoError
  /\ nSubmit = 0
  /\ call = NoCall
  /\ chats = NoChats
  /\ watch = NoWatch
  /\ nav = NoNav

\* A user completes the profile setup with the given display name.
AddProfile(displayName) ==
  /\ Len(store) < NumDocs
  /\ store' = Append(store, ProfileFields(displayName, <<"e">>, 0))
  /\ call' = NoCall
  /\ UNCHANGED <<accounts, authCurrent, notifQ, nNotif, subscribed, user,
                 loadingUser, path, cbs, authOp, authLoading, authError, write,
                 setupLoading, setupError, nSubmit, chats, watch, nav>>

\* searchUserProfiles(queryText) returns (the early return, or getDocs resolves).
searchResolve(queryText) ==
  /\ LET r == searchUserProfiles(store, queryText)
     IN  call' = [op |-> "searchUserProfiles", query |-> queryText,
                  outcome |-> "ok", queried |-> r.queried, results |-> r.results]
  /\ UNCHANGED <<store, accounts, authCurrent, notifQ, nNotif, subscribed, user,
                 loadingUser, path, cbs, authOp, authLoading, authError, write,
                 setupLoading, setupError, nSubmit, chats, watch, nav>>

\* searchUserProfiles(queryText) issues its query and getDocs is rejected.
searchReject(queryText) ==
  /\ searchUserProfiles(store, queryText).queried
  /\ call' = [op |-> "searchUserProfiles", query |-> queryText,
              outcome |-> "CollaboratorFailure", queried |-> TRUE, results |-> <<>>]
  /\ UNCHANGED <<store, accounts, authCurrent, notifQ, nNotif, subscribed, user,
                 loadingUser, path, cbs, authOp, authLoading, authError, write,
                 setupLoading, setupError, nSubmit, chats, watch, nav>>

NextSearch ==
  \/ \E d \in SearchNames : AddProfile(d)
  \/ \E q \in SearchQueries : searchResolve(q)
  \/ \E q \in SearchQueries : searchReject(q)

SpecSearch == InitSearch /\ [][NextSearch]_vars

\* ---------------------------------------------------------------------
\* firebaseService: subscribeToUserChats
\* ---------------------------------------------------------------------

NumChats == 2        \* chat documents
MaxUpdates == 3      \* onChatsUpdate invocations followed
MaxUnsubCalls == 2   \* calls of the returned unsubscribe followed

ChatIds == 1..NumChats

\* A chat document: its participants (array-contains is membership, so the
\* array is kept as a set) and metadata.
ChatDocs == {[participants |-> S, title |-> <<"t">>] : S \in SUBSET Uids}

\* snapshot.docs come in order of document id.
RECURSIVE SortedIds(_)
SortedIds(S) ==
  IF S = {} THEN <<>>
  ELSE LET m == CHOOSE d \in S : \A e \in S : d <= e
       IN  <<m>> \o SortedIds(S \ {m})

\* Variant without the participants filter.
chatsQueryAllChats(ch, uid) == DOMAIN ch

\* query(collection(db, 'chats'), where('participants', 'array-contains', uid))
chatsQuery(ch, uid) ==
  {c \in DOMAIN ch : "participants" \in DOMAIN ch[c] /\ uid \in ch[c].participants}

\* The array the snapshot callback hands to onChatsUpdate.
snapshotChats(ch, uid) ==
  LET docs == SortedIds(chatsQuery(ch, uid))
  IN  [k \in 1..Len(docs) |-> Spread([id |-> docs[k]], ch[docs[k]])]

\* Variant that sets up the listener whatever the uid.
subscribeToUserChatsAlwaysListens(uid) ==
  [uid |-> uid, state |-> "live", opened |-> TRUE, synced |-> FALSE,
   nUpdates |-> 0, lastUpdate |-> <<>>, errors |-> 0, unsubCalls |-> 0]

\* subscribeToUserChats(uid, onChatsUpdate, onError) up to its return: the
\* callbacks invoked so far and the subscription opened.
subscribeToUserChats(uid) ==
  IF FalsyUid(uid)
    THEN [uid |-> uid, state |-> "noop", opened |-> FALSE, synced |-> FALSE,
          nUpdates |-> 1, lastUpdate |-> <<>>, errors |-> 0, unsubCalls |-> 0]
    ELSE [uid |-> uid, state |-> "live", opened |-> TRUE, synced |-> FALSE,
          nUpdates |-> 0, lastUpdate |-> <<>>, errors |-> 0, unsubCalls |-> 0]

\* Variant whose returned function never detaches the listener.
watchUnsubscribeNoOp(w) == [w EXCEPT !.unsubCalls = @ + 1]

\* The returned function: () => {} for an absent uid, onSnapshot's
\* unsubscribe otherwise, which detaches the listener.
watchUnsubscribe(w) ==
  [w EXCEPT !.unsubCalls = @ + 1,
            !.state = IF @ = "live" THEN "closed" ELSE @]

InitChats ==
  /\ store = EmptyStore
  /\ accounts = Uids
  /\ authCurrent = None
  /\ notifQ = <<>>
  /\ nNotif = 0
  /\ subscribed = FALSE
  /\ user = Null
  /\ loadingUser = TRUE
  /\ path = "/dashboard"
  /\ cbs = <<>>
  /\ authOp = NoOp
  /\ authLoading = FALSE
  /\ authError = NoError
  /\ write = NoWrite
  /\ setupLoading = FALSE
  /\ setupError = NoError
  /\ nSubmit = 0
  /\ call = NoCall
  /\ chats = NoChats
  /\ watch = NoWatch
  /\ nav = NoNav

\* A consumer calls subscribeToUserChats(uid, onChatsUpdate, onError).
WatchStart(uid) ==
  /\ watch.state = "none"
  /\ watch' = subscribeToUserChats(uid)
  /\ UNCHANGED <<store, accounts, authCurrent, notifQ, nNotif, subscribed, user,
                 loadingUser, path, cbs, authOp, authLoading, authError, write,
                 setupLoading, setupError, nSubmit, call, chats, nav>>

\* The listener fires: first with the initial result of the query, then
\* whenever the result differs from the one last delivered. The callback
\* maps the snapshot and calls onChatsUpdate.
SnapshotDeliver ==
  /\ watch.state = "live"
  /\ watch.nUpdates < MaxUpdates
  /\ IF watch.synced THEN snapshotChats(chats, watch.uid) # watch.lastUpdate ELSE TRUE
  /\ watch' = [watch EXCEPT !.synced = TRUE,
                            !.nUpdates = @ + 1,
                            !.lastUpdate = snapshotChats(chats, watch.uid)]
  /\ UNCHANGED <<store, accounts, authCurrent, notifQ, nNotif, subscribed, user,
                 loadingUser, path, cbs, authOp, authLoading, authError, write,
                 setupLoading, setupError, nSubmit, call, chats, nav>>

\* The listener fails: onError is called and the listener ends.
ListenError ==
  /\ watch.state = "live"
  /\ watch' = [watch EXCEPT !.errors = @ + 1, !.state = "failed"]
  /\ UNCHANGED <<store, accounts, authCurrent, notifQ, nNotif, subscribed, user,
                 loadingUser, path, cbs, authOp, authLoading, authError, write,
                 setupLoading, setupError, nSubmit, call, chats, nav>>

\* The consumer calls the function subscribeToUserChats returned.
WatchUnsubscribe ==
  /\ watch.state # "none"
  /\ watch.unsubCalls < MaxUnsubCalls
  /\ watch' = watchUnsubscribe(watch)
  /\ UNCHANGED <<store, accounts, authCurrent, notifQ, nNotif, subscribed, user,
                 loadingUser, path, cbs, authOp, authLoading, authError, write,
                 setupLoading, setupError, nSubmit, call, chats, nav>>

\* Some client creates or rewrites a chat document.
ChatSet(c, d) ==
  /\ IF c \in DOMAIN chats THEN chats[c] # d ELSE TRUE
  /\ chats' = [k \in (DOMAIN chats) \cup {c} |-> IF k = c THEN d ELSE chats[k]]
  /\ UNCHANGED <<store, accounts, authCurrent, notifQ, nNotif, subscribed, user,
                 loadingUser, path, cbs, authOp, authLoading, authError, write,
                 setupLoading, setupError, nSubmit, call, watch, nav>>

\* Some client deletes a chat document.
ChatDelete(c) ==
  /\ c \in DOMAIN chats
  /\ chats' = [k \in (DOMAIN chats) \ {c} |-> chats[k]]
  /\ UNCHANGED <<store, accounts, authCurrent, notifQ, nNotif, subscribed, user,
                 loadingUser, path, cbs, authOp, authLoading, authError, write,
                 setupLoading, setupError, nSubmit, call, watch, nav>>

NextChats ==
  \/ \E uid \in {"", NoUid} \cup Uids : WatchStart(uid)
  \/ SnapshotDeliver
  \/ ListenError
  \/ WatchUnsubscribe
  \/ \E c \in ChatIds : \E d \in ChatDocs : ChatSet(c, d)
  \/ \E c \in ChatIds : ChatDelete(c)

SpecChats == InitChats /\ [][NextChats]_vars

\* ---------------------------------------------------------------------
\* Vocabulary of the properties
\* ---------------------------------------------------------------------

\* Some profile lookup has been started and has not responded.
LookupInFlight == \E n \in DOMAIN cbs : cbs[n].pc \in {"getDoc", "snap"}

\* The sequencer has not heard from the auth provider.
Unknown == cbs = <<>>

\* The latest notification carries an identity and its lookup has not responded.
AuthenticatedPending ==
  /\ cbs # <<>>
  /\ cbs[Len(cbs)].auth # None
  /\ cbs[Len(cbs)].pc \in {"getDoc", "snap"}

\* The step in which the lookup of invocation n responds.
Responds(n) == n \in DOMAIN cbs /\ cbs[n].pc = "snap" /\ cbs'[n].pc = "done"

\* The Session the sequencer is to produce for identity i.
SessionIncompleteFor(i) ==
  [uid |-> i, email |-> Email(i), displayName |-> Email(i), profileComplete |-> FALSE]

SessionCompleteFor(i, P) ==
  [uid |-> i, email |-> Email(i), displayName |-> P.displayName, profileComplete |-> TRUE]

\* The sequencer state a consumer of the context observes.
SessionState ==
  IF loadingUser THEN "Unknown"
  ELSE IF user = Null THEN "Anonymous"
  ELSE IF ProfileComplete(user) THEN "AuthenticatedComplete"
  ELSE "AuthenticatedIncomplete"

\* The decision table of the route gate.
RouteGate(state, onSetupPage) ==
  CASE state = "Unknown" -> "Wait"
    [] state = "Anonymous" -> "RedirectToAuth"
    [] state = "AuthenticatedIncomplete" /\ ~onSetupPage -> "RedirectToSetup"
    [] state = "AuthenticatedIncomplete" /\ onSetupPage -> "Allow"
    [] state = "AuthenticatedComplete" -> "Allow"

\* ---------------------------------------------------------------------
\* Properties
\* ---------------------------------------------------------------------

\* C1: when notification N1 (identity A) is followed by N2 (identity B) and
\* A's lookup responds after B's, the Session then carries B's identity,
\* displayName and profileComplete, not A's.
C1_RaceSettlesToLatest ==
  [][(/\ Len(cbs) = 2
      /\ cbs[1].auth # None
      /\ cbs[2].auth # None
      /\ cbs[1].auth # cbs[2].auth
      /\ cbs[2].pc = "done"
      /\ Responds(1))
     => (/\ UidOf(user') = cbs[2].auth
         /\ user' = (IF cbs[2].snap.exists
                       THEN SessionCompleteFor(cbs[2].auth, cbs[2].snap.data)
                       ELSE SessionIncompleteFor(cbs[2].auth)))]_vars

\* C2: when the last notification is "signed out" and it has been delivered,
\* the Session is "no session" once the last pending lookup has responded.
C2_SignedOutSettlesToNoSession ==
  [][(/\ cbs # <<>>
      /\ cbs[Len(cbs)].auth = None
      /\ notifQ = <<>>
      /\ \E n \in DOMAIN cbs : Responds(n)
      /\ ~LookupInFlight')
     => user' = Null]_vars

C5_LookupFailureDegrades ==
  (/\ nNotif = 1
   /\ Len(cbs) = 1
   /\ cbs[1].pc = "rejected")
  => (/\ user = SessionIncompleteFor(cbs[1].auth)
      /\ loadingUser = FALSE)

\* C6: while the sequencer is Unknown or AuthenticatedPending, PrivateRoute
\* on a protected page decides Wait.
C6_PendingMeansWait ==
  (path \in ProtectedPaths /\ (Unknown \/ AuthenticatedPending))
  => PrivateRoute(loadingUser, user, path) = "Wait"

\* C7: PrivateRoute is the route-gate table applied to the observed session
\* state and to whether the current path is the setup page.
C7_RouteGateTable ==
  PrivateRoute(loadingUser, user, path) = RouteGate(SessionState, path = "/setup-profile")

C7_Witness ==
  /\ SessionState = "AuthenticatedIncomplete"
  /\ path = "/setup-profile"
  /\ PrivateRoute(loadingUser, user, path) = "Allow"

\* C8: after unsubscribe, the response of a lookup changes neither the
\* Session nor the loading flag nor the current path.
C8_NoEffectAfterUnsubscribe ==
  [][(~subscribed /\ \E n \in DOMAIN cbs : Responds(n))
     => (user' = user /\ loadingUser' = loadingUser /\ path' = path)]_vars

\* C9: when the Session is present and no lookup or profile write is in
\* flight, profileComplete is true iff the store holds a Profile for the
\* Session's identity.
C9_ProfileCompleteIffProfile ==
  (user # Null /\ ~LookupInFlight /\ write.pc = "none")
  => (ProfileComplete(user) <=> UidOf(user) \in DOMAIN store)

\* C10 (as claimed): setUserProfile fails with InvalidArgument, leaving the
\* store unchanged, exactly when the uid is empty or the fields are
\* undefined, null or an empty object.
C10_InvalidArgumentAsClaimed ==
  call.op = "setUserProfile"
  => (/\ call.outcome = "InvalidArgument"
         <=> (call.uid = "" \/ call.fields \in {Undefined, Null, EmptyObj})
      /\ call.outcome = "InvalidArgument" => store = call.before)

\* C10 (amended): setUserProfile fails with InvalidArgument, leaving the
\* store unchanged, exactly when the uid is empty or the fields are
\* undefined or null; an empty object is accepted.
C10_InvalidArgument ==
  call.op = "setUserProfile"
  => (/\ call.outcome = "InvalidArgument"
         <=> (call.uid = "" \/ call.fields \in {Undefined, Null})
      /\ call.outcome = "InvalidArgument" => store = call.before)

C10_Witness ==
  /\ call.op = "setUserProfile"
  /\ call.uid = "A"
  /\ call.fields = Null
  /\ call.outcome = "InvalidArgument"
  /\ "A" \in DOMAIN store
  /\ store = call.before

\* C11: a successful setUserProfile(uid, f) with non-empty f leaves the
\* record of uid equal to the prior record overridden by f: the fields of f
\* have f's values, the other prior fields keep theirs, a new record has
\* exactly the fields of f, and the records of other ids are unchanged.
C11_MergePreservesOtherFields ==
  (call.op = "setUserProfile" /\ call.outcome = "ok" /\ call.fields # EmptyObj)
  => LET r  == call.before
         f  == call.fields
         id == call.uid
     IN  /\ DOMAIN store = (DOMAIN r) \cup {id}
         /\ \A k \in DOMAIN f : k \in DOMAIN store[id] /\ store[id][k] = f[k]
         /\ id \in DOMAIN r =>
              /\ DOMAIN store[id] = (DOMAIN r[id]) \cup (DOMAIN f)
              /\ \A k \in (DOMAIN r[id]) \ (DOMAIN f) : store[id][k] = r[id][k]
         /\ id \notin DOMAIN r => DOMAIN store[id] = DOMAIN f
         /\ \A o \in (DOMAIN r) \ {id} : store[o] = r[o]

C11_Witness ==
  /\ call.op = "setUserProfile"
  /\ call.outcome = "ok"
  /\ call.uid = "A"
  /\ call.fields = [displayName |-> <<"Y">>]
  /\ "A" \in DOMAIN call.before
  /\ DOMAIN call.before["A"] = {"displayName", "email"}
  /\ call.before["A"].displayName = <<"X">>
  /\ DOMAIN store["A"] = {"displayName", "email"}
  /\ store["A"].displayName = <<"Y">>
  /\ store["A"].email = <<"e">>
  /\ "B" \in DOMAIN store

\* C12: setUserProfile is idempotent: a successful call repeated with the
\* same uid and fields leaves the store as the first call left it.
C12_MergeIdempotent ==
  [][(/\ call.op = "setUserProfile" /\ call.outcome = "ok"
      /\ call'.op = "setUserProfile" /\ call'.outcome = "ok"
      /\ call'.uid = call.uid
      /\ call'.fields = call.fields)
     => store' = store]_vars

C12_Witness ==
  /\ call.op = "setUserProfile"
  /\ call.outcome = "ok"
  /\ call.fields = [displayName |-> <<"Y">>]
  /\ call.uid \in DOMAIN call.before
  /\ DOMAIN call.before[call.uid] # DOMAIN call.fields
  /\ store = call.before

\* ---------------------------------------------------------------------
\* searchUserProfiles (SpecSearch)
\* ---------------------------------------------------------------------

SearchReturned == call.op = "searchUserProfiles" /\ call.outcome = "ok"

\* The text is undefined, empty or made of spaces only.
BlankQuery(q) == q = Undefined \/ \A i \in 1..Len(q.text) : q.text[i] = " "

StartsWith(l, p) == Len(p) <= Len(l) /\ SubSeq(l, 1, Len(p)) = p

\* The documents whose lowercaseDisplayName lies in the closed range
\* [p, p + HIGH_SENTINEL].
InClosedRange(p) ==
  {d \in DOMAIN store :
     /\ LexLeq(p, store[d].lowercaseDisplayName)
     /\ LexLeq(store[d].lowercaseDisplayName, p \o <<HighSentinel>>)}

ResultIds == {call.results[k].id : k \in 1..Len(call.results)}

\* C13 as stated: every returned profile has its lowercaseDisplayName in the
\* half-open range [p, p + HIGH_SENTINEL), p the lower-cased prefix text: a
\* profile whose lowercaseDisplayName equals p + HIGH_SENTINEL is not returned.
C13_HalfOpenRangeAsClaimed ==
  (SearchReturned /\ ~BlankQuery(call.query))
  => LET p == toLowerCase(call.query.text)
     IN  \A k \in 1..Len(call.results) :
           /\ LexLeq(p, call.results[k].lowercaseDisplayName)
           /\ call.results[k].lowercaseDisplayName # p \o <<HighSentinel>>
           /\ LexLeq(call.results[k].lowercaseDisplayName, p \o <<HighSentinel>>)

\* C13: searchUserProfiles returns only profiles whose lowercaseDisplayName
\* lies in the closed range [p, p + HIGH_SENTINEL], p the lower-cased prefix
\* text; each of them starts with p; a profile whose lowercaseDisplayName
\* equals p + HIGH_SENTINEL is returned when the range holds at most 5
\* profiles; and a prefix text that differs only by letter case gives the
\* same result.
C13_ClosedRangePrefixMatch ==
  (SearchReturned /\ ~BlankQuery(call.query))
  => LET p == toLowerCase(call.query.text)
     IN  /\ \A k \in 1..Len(call.results) :
              /\ call.results[k].id \in InClosedRange(p)
              /\ call.results[k].lowercaseDisplayName = store[call.results[k].id].lowercaseDisplayName
              /\ StartsWith(call.results[k].lowercaseDisplayName, p)
         /\ \A d \in DOMAIN store :
              (/\ store[d].lowercaseDisplayName = p \o <<HighSentinel>>
               /\ Cardinality(InClosedRange(p)) <= MaxResults)
              => d \in ResultIds
         /\ \A q \in SearchQueries :
              (~BlankQuery(q) /\ toLowerCase(q.text) = p)
              => searchUserProfiles(store, q).results = call.results

C13_Witness ==
  /\ SearchReturned
  /\ call.query = [text |-> <<"A">>]
  /\ \E k \in 1..Len(call.results) :
       call.results[k].lowercaseDisplayName = <<"a", HighSentinel>>
  /\ \E k \in 1..Len(call.results) :
       call.results[k].lowercaseDisplayName = <<"a", "b">>
  /\ \E d \in DOMAIN store : store[d].lowercaseDisplayName = <<"b", "a">>

\* C14: for a non-blank prefix text the returned sequence is sorted ascending
\* by lowercaseDisplayName and holds exactly the min(5, number of matches)
\* smallest matching profiles, each once, with its stored fields; its length
\* never exceeds 5. The matching profiles are those of the query's range.
C14_SortedSmallestAtMostFive ==
  (SearchReturned /\ ~BlankQuery(call.query))
  => LET M == InClosedRange(toLowerCase(call.query.text))
         n == Len(call.results)
         name(k) == call.results[k].lowercaseDisplayName
     IN  /\ n <= 5
         /\ n = IF Cardinality(M) < 5 THEN Cardinality(M) ELSE 5
         /\ ResultIds \subseteq M
         /\ Cardinality(ResultIds) = n
         /\ \A k \in 1..n :
              call.results[k] = Spread([id |-> call.results[k].id], store[call.results[k].id])
         /\ \A i \in 1..n : \A j \in i..n : LexLeq(name(i), name(j))
         /\ \A d \in M \ ResultIds : \A k \in 1..n :
              LexLeq(name(k), store[d].lowercaseDisplayName)

C14_Witness ==
  /\ SearchReturned
  /\ call.query = [text |-> <<"a">>]
  /\ Cardinality(InClosedRange(<<"a">>)) = 6
  /\ Len(call.results) = 5
  /\ call.results[1].lowercaseDisplayName = <<"a">>
  /\ call.results[5].lowercaseDisplayName = <<"a", "b">>
  /\ call.results[1].id > call.results[5].id

\* C15: searchUserProfiles called with an undefined, empty or whitespace-only
\* prefix text returns the empty sequence and issues no query to the store.
C15_BlankQueryReturnsEmpty ==
  (call.op = "searchUserProfiles" /\ BlankQuery(call.query))
  => /\ call.outcome = "ok"
     /\ call.results = <<>>
     /\ ~call.queried

C15_Witness ==
  /\ SearchReturned
  /\ call.query = [text |-> <<" ">>]
  /\ call.results = <<>>
  /\ ~call.queried
  /\ Len(store) = NumDocs

\* ---------------------------------------------------------------------
\* Profile setup submissions (Spec)
\* ---------------------------------------------------------------------

ChatsOf(uid) ==
  {[id |-> c] @@ chats[c] : c \in {x \in DOMAIN chats : uid \in chats[x].participants}}

\* C17: subscribeToUserChats called with an absent uid has called
\* onChatsUpdate exactly once, with the empty list, when it returns; it opens
\* no subscription; onError is never called; and however often the returned
\* function is called and whatever happens to the chats, none of this changes.
C17_AbsentIdentityNoSubscription ==
  (watch.state # "none" /\ FalsyUid(watch.uid))
  => /\ ~watch.opened
     /\ watch.state = "noop"
     /\ watch.nUpdates = 1
     /\ watch.lastUpdate = <<>>
     /\ watch.errors = 0

C17_Witness ==
  /\ watch.uid = ""
  /\ watch.state = "noop"
  /\ watch.nUpdates = 1
  /\ watch.unsubCalls = MaxUnsubCalls
  /\ DOMAIN chats # {}

\* C18: once the function returned for an opened subscription has been
\* called, no step invokes onChatsUpdate or onError, whatever happens to the
\* chats; a further call of the function changes nothing but its own count.
C18_SilentAfterUnsubscribe ==
  [][(watch.opened /\ watch.unsubCalls >= 1)
     => /\ watch'.nUpdates = watch.nUpdates
        /\ watch'.lastUpdate = watch.lastUpdate
        /\ watch'.errors = watch.errors
        /\ watch'.state = watch.state
        /\ watch'.opened]_vars

C18_Witness ==
  /\ watch.opened
  /\ watch.state = "closed"
  /\ watch.unsubCalls = 2
  /\ watch.nUpdates = 1
  /\ watch.errors = 0
  /\ ChatsOf(watch.uid) # {}
  /\ watch.lastUpdate = <<>>

\* C19: every onChatsUpdate invocation of an opened subscription on uid
\* carries the complete current result: each chat whose participants contain
\* uid, once, with its id and fields, and no other chat.
C19_UpdateCarriesFullResultSet ==
  [][(watch.opened /\ watch'.nUpdates > watch.nUpdates)
     => LET payload == watch'.lastUpdate
        IN  /\ {payload[k] : k \in 1..Len(payload)} = ChatsOf(watch.uid)
            /\ Len(payload) = Cardinality(ChatsOf(watch.uid))
            /\ chats' = chats]_vars

C19_Witness ==
  /\ watch.uid = "A"
  /\ watch.state = "live"
  /\ watch.nUpdates = 3
  /\ Len(watch.lastUpdate) = 1
  /\ watch.lastUpdate[1].id = 2
  /\ Cardinality(DOMAIN chats) = 2
  /\ chats[1].participants = {"B"}

\* ---------------------------------------------------------------------
\* setLoadingUser(false) (Spec)
\* ---------------------------------------------------------------------

\* C20: an invocation of the callback whose lookup responds calls
\* setLoadingUser(false) exactly once, in the step that sets the Session of
\* its notification, whether the profile was found or not; an invocation for
\* "signed out" calls it once too; an invocation still waiting for its lookup
\* has not called it.
C20_LoadingDoneSignalledOnce ==
  [][/\ \A n \in DOMAIN cbs' :
          /\ cbs'[n].pc = "done" => cbs'[n].signalled = 1
          /\ cbs'[n].pc \in {"getDoc", "snap"} => cbs'[n].signalled = 0
     /\ \A n \in DOMAIN cbs :
          /\ Responds(n) =>
               /\ cbs[n].signalled = 0
               /\ cbs'[n].signalled = 1
               /\ loadingUser' = FALSE
               /\ user' # Null
               /\ UidOf(user') = cbs[n].auth
          /\ cbs'[n].signalled # cbs[n].signalled => Responds(n)
     /\ (Len(cbs') > Len(cbs) /\ cbs'[Len(cbs')].auth = None) =>
          /\ cbs'[Len(cbs')].signalled = 1
          /\ loadingUser' = FALSE
          /\ user' = Null]_vars

C20_Witness ==
  /\ Len(cbs) = 2
  /\ cbs[1].auth \in Uids
  /\ cbs[1].auth \notin DOMAIN store
  /\ cbs[1].pc = "done"
  /\ cbs[1].signalled = 1
  /\ cbs[2].auth \in Uids
  /\ cbs[2].auth \in DOMAIN store
  /\ cbs[2].pc = "done"
  /\ cbs[2].signalled = 1
  /\ nSubmit = 0
  /\ ~loadingUser

\* ---------------------------------------------------------------------
\* Auth form (Spec)
\* ---------------------------------------------------------------------

\* C21: when signIn or signUp is rejected, the rejection itself changes
\* nothing a consumer sees, and the handler's catch/finally step puts the
\* error message in the form's error state, navigates nowhere, leaves the
\* Session and the provider's user alone, starts no new operation and sets
\* the form's loading flag to false.
C21_RejectedAuthSurfacesError ==
  [][/\ (authOp.st = "wait" /\ authOp'.st = "err") =>
          /\ user' = user
          /\ path' = path
          /\ nav' = NoNav
          /\ authError' = authError
     /\ (authOp.st = "err" /\ authOp' # authOp) =>
          /\ authError' = "auth-error"
          /\ authLoading' = FALSE
          /\ nav' = NoNav
          /\ path' = path
          /\ user' = user
          /\ loadingUser' = loadingUser
          /\ authOp' = NoOp
          /\ authCurrent' = authCurrent
          /\ accounts' = accounts
          /\ notifQ' = notifQ]_vars

C21_Witness ==
  /\ authError = "auth-error"
  /\ ~authLoading
  /\ authOp = NoOp
  /\ path = "/auth"
  /\ user = Null
  /\ authCurrent = None
  /\ nav = NoNav

\* ---------------------------------------------------------------------
\* Navigation by the UserProvider callback (Spec)
\* ---------------------------------------------------------------------

\* C22: when the lookup of a notification responds "profile absent" the
\* callback calls navigate('/setup-profile') if and only if the current path
\* is not /setup-profile; when it responds with a profile, or the
\* notification is "signed out", the callback calls navigate not at all.
C22_NeedsSetupNavigation ==
  [][/\ \A n \in DOMAIN cbs :
          Responds(n) =>
            IF cbs[n].snap.exists
              THEN nav' = NoNav /\ path' = path
              ELSE /\ (nav' = "/setup-profile") <=> (path # "/setup-profile")
                   /\ nav' \in {NoNav, "/setup-profile"}
                   /\ path' = "/setup-profile"
     /\ (Len(cbs') > Len(cbs) /\ cbs'[Len(cbs')].auth = None) =>
          nav' = NoNav /\ path' = path]_vars

\* An absent profile found while the user is on the dashboard.
C22_Witness ==
  /\ nav = "/setup-profile"
  /\ path = "/setup-profile"
  /\ cbs # <<>>
  /\ cbs[Len(cbs)].pc = "done"
  /\ cbs[Len(cbs)].auth \in Uids
  /\ ~cbs[Len(cbs)].snap.exists
  /\ ~Falsy(user)
  /\ ~ProfileComplete(user)
  /\ ~loadingUser

\* ---------------------------------------------------------------------
\* The callback before its lookup responds (Spec)
\* ---------------------------------------------------------------------

\* C23: the steps an invocation of the callback for an identity takes before
\* its lookup responds (its delivery, the getDoc being served or failing)
\* change neither the Session nor the loading flag nor the path, and call
\* navigate not at all.
C23_PendingLookupChangesNothing ==
  [][\A n \in DOMAIN cbs' :
       (/\ cbs'[n].auth # None
        /\ cbs'[n].pc \in {"getDoc", "snap", "rejected"}
        /\ IF n \in DOMAIN cbs THEN cbs[n] # cbs'[n] ELSE TRUE)
       => /\ user' = user
          /\ loadingUser' = loadingUser
          /\ path' = path
          /\ nav' = NoNav]_vars

\* A second identity is being looked up while the first one's Session shows.
C23_Witness ==
  /\ Len(cbs) = 2
  /\ cbs[1].pc = "done"
  /\ cbs[2].pc = "snap"
  /\ cbs[2].auth \in Uids
  /\ cbs[2].auth # cbs[1].auth
  /\ ~Falsy(user)
  /\ UidOf(user) = cbs[1].auth
  /\ ~loadingUser

\* ---------------------------------------------------------------------
\* UserProfileSetup.handleSubmit (Spec)
\* ---------------------------------------------------------------------

\* C24: a submission issues a write only with a Session and a non-empty
\* trimmed display name; the validation branch issues no write and changes
\* neither the store nor the Session; when the write fails the handler leaves
\* the Session as it is (profile not complete), navigates nowhere and shows an
\* error; when the write has succeeded, and only then, the handler sets the
\* Session to profileComplete = true with the trimmed display name and
\* navigates to /dashboard.
C24_SubmitBranches ==
  [][/\ (write.pc = "none" /\ write'.pc # "none") =>
          /\ ~Falsy(user)
          /\ write'.name # <<>>
          /\ write'.uid = UidOf(user)
          /\ write'.fields.displayName = write'.name
          /\ store' = store /\ user' = user /\ nav' = NoNav
     /\ (setupError' = "Please provide a valid display name." /\ setupError' # setupError) =>
          /\ write' = write /\ write.pc = "none"
          /\ store' = store /\ user' = user /\ nav' = NoNav /\ path' = path
     /\ (write.pc = "setDoc" /\ write'.pc = "rejected") =>
          /\ store' = store /\ user' = user /\ nav' = NoNav /\ path' = path
     /\ (write.pc = "rejected" /\ write' = NoWrite) =>
          /\ setupError' = "Failed to save profile. Please try again."
          /\ setupLoading' = FALSE
          /\ store' = store /\ user' = user /\ nav' = NoNav /\ path' = path
     /\ (write.pc = "committed" /\ write' = NoWrite) =>
          /\ write.uid \in DOMAIN store
          /\ store[write.uid].displayName = write.name
          /\ ProfileComplete(user')
          /\ user'.displayName = write.name
          /\ nav' = "/dashboard" /\ path' = "/dashboard"
          /\ setupLoading' = FALSE
          /\ store' = store
     /\ (write' # write /\ write.pc # "committed") => (user' = user /\ nav' = NoNav)]_vars

\* A failed write: the user is still on the setup page with an incomplete
\* profile, an error shows and no profile was stored.
C24_Witness ==
  /\ setupError = "Failed to save profile. Please try again."
  /\ write = NoWrite
  /\ nSubmit = 1
  /\ ~setupLoading
  /\ ~Falsy(user)
  /\ ~ProfileComplete(user)
  /\ UidOf(user) \notin DOMAIN store
  /\ path = "/setup-profile"

\* ---------------------------------------------------------------------
\* Where a login ends (Spec)
\* ---------------------------------------------------------------------

\* No redirect of PrivateRoute or of the setup page is waiting to happen.
RoutesSettled ==
  /\ path \in ProtectedPaths => PrivateRoute(loadingUser, user, path) \in {"Allow", "Wait"}
  /\ ~(path = "/setup-profile" /\ (~loadingUser) /\ ProfileComplete(user))

\* Identity i signed in from the signed-out state, the handler has finished,
\* the lookup of the sign-in has responded and nothing is in flight.
SignInSettled(i) ==
  /\ Len(cbs) >= 2
  /\ cbs[Len(cbs) - 1].auth = None
  /\ cbs[Len(cbs)].auth = i
  /\ cbs[Len(cbs)].pc = "done"
  /\ authCurrent = i
  /\ authOp = NoOp
  /\ notifQ = <<>>
  /\ nSubmit = 0
  /\ RoutesSettled

\* C25: after a successful login from the signed-out state, once the lookup
\* triggered by the sign-in has responded and the redirects have been taken,
\* a user who has a profile is on /dashboard with the protected content
\* allowed and a user who has none is on /setup-profile; the user is not on
\* /auth.
C25_LoginEndsOnProtectedPage ==
  \A i \in Uids :
    SignInSettled(i) =>
      /\ path # "/auth"
      /\ IF i \in DOMAIN store
           THEN path = "/dashboard" /\ PrivateRoute(loadingUser, user, path) = "Allow"
           ELSE path = "/setup-profile"

\* ---------------------------------------------------------------------
\* Redirects (Spec)
\* ---------------------------------------------------------------------

\* The Session of a signed-in user whose profile is not complete.
IncompleteSession == (~loadingUser) /\ (~Falsy(user)) /\ ~ProfileComplete(user)

\* A navigation issued by the UserProvider callback, PrivateRoute or the
\* body of UserProfileSetup (not by a form handler).
RedirectStep == nav' # NoNav /\ authOp' = authOp /\ write' = write

\* C26: under a Session with an incomplete profile every redirect goes from
\* another path to /setup-profile, so at most one redirect is issued while
\* the Session stays as it is and none once the path is /setup-profile; such
\* a user is always on a protected path, where PrivateRoute redirects from
\* /dashboard and allows /setup-profile; and from /dashboard the user gets
\* to /setup-profile unless the Session changes first.
C26_RedirectsTerminate ==
  /\ ((IncompleteSession /\ path = "/dashboard")
        ~> (path = "/setup-profile" \/ ~IncompleteSession))
  /\ [][/\ (RedirectStep /\ IncompleteSession') =>
             /\ path # "/setup-profile"
             /\ nav' = "/setup-profile"
             /\ path' = "/setup-profile"
        /\ IncompleteSession' =>
             /\ path' \in ProtectedPaths
             /\ path' = "/dashboard" => PrivateRoute(loadingUser', user', path') = "RedirectToSetup"
             /\ path' = "/setup-profile" => PrivateRoute(loadingUser', user', path') = "Allow"]_vars

\* A redirect has brought the user to the setup page and nothing more is to
\* happen.
C26_Witness ==
  /\ IncompleteSession
  /\ path = "/setup-profile"
  /\ nav = "/setup-profile"
  /\ cbs # <<>>
  /\ \A n \in DOMAIN cbs : cbs[n].pc = "done"
  /\ cbs[Len(cbs)].auth = UidOf(user)
  /\ authOp = NoOp
  /\ notifQ = <<>>
  /\ RoutesSettled

\* ---------------------------------------------------------------------
\* The Session carries an identity (Spec)
\* ---------------------------------------------------------------------

\* C27: in every reachable state a present Session (context user not null)
\* carries the uid of an account.
C27_SessionCarriesIdentity ==
  (~Falsy(user)) => ("uid" \in DOMAIN user /\ user.uid \in accounts)

====
